---- MODULE Spec2Model ----
(***************************************************************************)
(* Cart-to-order transition and order lifecycle of the e-commerce backend. *)
(*                                                                         *)
(* Money is held in integer cents, so that the arithmetic of the handlers  *)
(* (sums, quantity * price, Math.round(x * 0.1 * 100) / 100) is exact.     *)
(* Documents of a collection are kept in insertion order; findOne returns  *)
(* the first match.                                                        *)
(***************************************************************************)
EXTENDS Integers, Sequences, FiniteSets, TLC

VARIABLES
    products,   \* Product collection: product id -> document
    carts,      \* Cart collection: sequence of cart documents
    orders,     \* Order collection: sequence of order documents (index = _id)
    intents,    \* the payment provider's payment intents (index = intent id)
    clock,      \* the wall clock read by new Date()
    reqs,       \* in-flight requests: request id -> handler position and locals
    last,       \* the last completed request and its HTTP response
    initial,    \* history: the catalog at the start
    ckpt        \* history: the last successful checkout, with the catalog
                \* before and after it

vars == <<products, carts, orders, intents, clock, reqs, last, initial, ckpt>>

----------------------------------------------------------------------------
(* Bounds of the model *)

MaxQty == 2        \* largest quantity a request asks for
MaxLine == 2       \* largest quantity of a cart line the model follows
MaxStock == 2      \* largest initial stock of a product
MaxOrders == 1     \* number of orders the model follows
MaxIntents == 1    \* number of payment intents the model follows
MaxClock == 2      \* latest instant of the wall clock the model follows
MaxDay == 9        \* latest day the model follows a cart to

Null == "null"
ProductIds == {"p1", "p2"}
Users == {"u1", "u2"}
Sessions == {"s1"}

----------------------------------------------------------------------------
(* Generic helpers *)

RECURSIVE SumSeq(_)
SumSeq(s) == IF s = <<>> THEN 0 ELSE Head(s) + SumSeq(Tail(s))

SeqMap(s, Op(_)) == [i \in 1..Len(s) |-> Op(s[i])]

\* index of the first element satisfying Test, 0 when there is none
FirstIdx(s, Test(_)) ==
    IF \E i \in 1..Len(s) : Test(s[i])
    THEN CHOOSE i \in 1..Len(s) : Test(s[i]) /\ \A j \in 1..(i-1) : ~Test(s[j])
    ELSE 0

RemoveAt(s, i) == [j \in 1..(Len(s)-1) |-> IF j < i THEN s[j] ELSE s[j+1]]

\* Math.round(x / d) for x >= 0: round half up
RoundDiv(x, d) == (2 * x + d) \div (2 * d)

----------------------------------------------------------------------------
(* Cart model (models/Cart.ts) *)

ZeroTotals == [subtotal |-> 0, tax |-> 0, shipping |-> 0, total |-> 0]

\* the days a cart lives: the default of expiresAt is 7 days after new Cart(...)
CartTtl == 7

\* new Cart({ sessionId, user, items, totals }) at instant now (in days):
\* expiresAt takes its default
newCart(userId, sessionId, items, totals, now) ==
    [sessionId |-> sessionId, user |-> userId, items |-> items,
     totals |-> totals, expiresAt |-> now + CartTtl]

\* variant of cartPreSave whose tax drops the fraction of a cent instead of
\* rounding it
cartPreSaveTruncated(cart) ==
    LET subtotal == SumSeq(SeqMap(cart.items, LAMBDA it : it.total))
        tax      == subtotal \div 10
        shipping == IF subtotal >= 10000 THEN 0 ELSE 1000
    IN [cart EXCEPT !.totals = [subtotal |-> subtotal, tax |-> tax,
                                shipping |-> shipping,
                                total |-> subtotal + tax + shipping]]

\* cartSchema.pre('save'): totals recomputed from the items
cartPreSave(cart) ==
    LET subtotal == SumSeq(SeqMap(cart.items, LAMBDA it : it.total))
        tax      == RoundDiv(subtotal, 10)
        shipping == IF subtotal >= 10000 THEN 0 ELSE 1000
    IN [cart EXCEPT !.totals = [subtotal |-> subtotal, tax |-> tax,
                                shipping |-> shipping,
                                total |-> subtotal + tax + shipping]]

\* cartItemSchema validators: quantity min 1, price min 0, total min 0
cartValid(cart) ==
    \A i \in 1..Len(cart.items) :
        /\ cart.items[i].quantity >= 1
        /\ cart.items[i].price >= 0
        /\ cart.items[i].total >= 0

\* Cart.findOne(query): query is [user |-> u] or [sessionId |-> s]
cartMatches(cart, query) ==
    IF "user" \in DOMAIN query THEN cart.user = query.user
    ELSE cart.sessionId = query.sessionId

cartFindOne(cs, query) == FirstIdx(cs, LAMBDA c : cartMatches(c, query))

\* the query built by the cart routes from the optional identity
cartQuery(userId, sessionId) ==
    IF userId # Null THEN [user |-> userId] ELSE [sessionId |-> sessionId]

\* product.price.sale || product.price.regular
itemPrice(product) == IF product.sale # 0 THEN product.sale ELSE product.regular

\* variant of lineIdx that never finds the product in the cart
lineIdxNone(items, productId) == 0

lineIdx(items, productId) == FirstIdx(items, LAMBDA it : it.product = productId)

newLine(productId, quantity, price) ==
    [product |-> productId, quantity |-> quantity, price |-> price,
     total |-> quantity * price]

\* cart.save(): validation, then the pre-save hook, then insert or update.
\* idx = 0 says the document is new. ok is FALSE, and the collection as it
\* was, when validation rejects the document.
cartSave(cs, idx, cart) ==
    IF ~cartValid(cart) THEN [ok |-> FALSE, carts |-> cs]
    ELSE IF idx = 0 THEN [ok |-> TRUE, carts |-> Append(cs, cartPreSave(cart))]
    ELSE [ok |-> TRUE, carts |-> [cs EXCEPT ![idx] = cartPreSave(cart)]]

cartResp(status, message, cs) ==
    [status |-> status, message |-> message, carts |-> cs]

\* variant of cartAdd that compares the quantity with the stock whether or
\* not the product tracks its quantity
cartAddAlwaysChecks(cs, ps, now, userId, sessionId, productId, quantity) ==
    IF productId = Null THEN cartResp(400, "Product ID is required", cs)
    ELSE IF userId = Null /\ sessionId = Null
    THEN cartResp(400, "Authentication or session ID required", cs)
    ELSE IF ~ps[productId].exists THEN cartResp(404, "Product not found", cs)
    ELSE IF ps[productId].quantity < quantity
    THEN cartResp(400, "Insufficient inventory", cs)
    ELSE
      LET idx   == cartFindOne(cs, cartQuery(userId, sessionId))
          cart  == IF idx = 0
                   THEN newCart(userId, sessionId, <<>>, ZeroTotals, now)
                   ELSE cs[idx]
          k     == lineIdx(cart.items, productId)
          price == itemPrice(ps[productId])
          items == IF k > 0
                   THEN [cart.items EXCEPT
                           ![k].quantity = @ + quantity,
                           ![k].total = (cart.items[k].quantity + quantity) * price]
                   ELSE Append(cart.items, newLine(productId, quantity, price))
          saved == cartSave(cs, idx, [cart EXCEPT !.items = items])
      IN IF ~saved.ok THEN cartResp(500, "Error adding item to cart", cs)
         ELSE cartResp(201, "Item added to cart successfully", saved.carts)

\* variant of cartAdd that brings the price of the line it finds up to date
cartAddReprices(cs, ps, now, userId, sessionId, productId, quantity) ==
    IF productId = Null THEN cartResp(400, "Product ID is required", cs)
    ELSE IF userId = Null /\ sessionId = Null
    THEN cartResp(400, "Authentication or session ID required", cs)
    ELSE IF ~ps[productId].exists THEN cartResp(404, "Product not found", cs)
    ELSE IF ps[productId].trackQuantity /\ ps[productId].quantity < quantity
    THEN cartResp(400, "Insufficient inventory", cs)
    ELSE
      LET idx   == cartFindOne(cs, cartQuery(userId, sessionId))
          cart  == IF idx = 0
                   THEN newCart(userId, sessionId, <<>>, ZeroTotals, now)
                   ELSE cs[idx]
          k     == lineIdx(cart.items, productId)
          price == itemPrice(ps[productId])
          items == IF k > 0
                   THEN [cart.items EXCEPT
                           ![k].quantity = @ + quantity,
                           ![k].price = price,
                           ![k].total = (cart.items[k].quantity + quantity) * price]
                   ELSE Append(cart.items, newLine(productId, quantity, price))
          saved == cartSave(cs, idx, [cart EXCEPT !.items = items])
      IN IF ~saved.ok THEN cartResp(500, "Error adding item to cart", cs)
         ELSE cartResp(201, "Item added to cart successfully", saved.carts)

\* router.post('/add')
cartAdd(cs, ps, now, userId, sessionId, productId, quantity) ==
    IF productId = Null THEN cartResp(400, "Product ID is required", cs)
    ELSE IF userId = Null /\ sessionId = Null
    THEN cartResp(400, "Authentication or session ID required", cs)
    ELSE IF ~ps[productId].exists THEN cartResp(404, "Product not found", cs)
    ELSE IF ps[productId].trackQuantity /\ ps[productId].quantity < quantity
    THEN cartResp(400, "Insufficient inventory", cs)
    ELSE
      LET idx   == cartFindOne(cs, cartQuery(userId, sessionId))
          cart  == IF idx = 0
                   THEN newCart(userId, sessionId, <<>>, ZeroTotals, now)
                   ELSE cs[idx]
          k     == lineIdx(cart.items, productId)
          price == itemPrice(ps[productId])
          items == IF k > 0
                   THEN [cart.items EXCEPT
                           ![k].quantity = @ + quantity,
                           ![k].total = (cart.items[k].quantity + quantity) * price]
                   ELSE Append(cart.items, newLine(productId, quantity, price))
          saved == cartSave(cs, idx, [cart EXCEPT !.items = items])
      IN IF ~saved.ok THEN cartResp(500, "Error adding item to cart", cs)
         ELSE cartResp(201, "Item added to cart successfully", saved.carts)

\* router.put('/update')
cartUpdate(cs, ps, userId, sessionId, productId, quantity) ==
    IF productId = Null \/ quantity = 0
    THEN cartResp(400, "Product ID and quantity are required", cs)
    ELSE IF quantity < 1 THEN cartResp(400, "Quantity must be at least 1", cs)
    ELSE IF userId = Null /\ sessionId = Null
    THEN cartResp(400, "Authentication or session ID required", cs)
    ELSE
      LET idx == cartFindOne(cs, cartQuery(userId, sessionId)) IN
      IF idx = 0 THEN cartResp(404, "Cart not found", cs)
      ELSE
        LET cart == cs[idx]
            k    == lineIdx(cart.items, productId)
        IN
        IF k = 0 THEN cartResp(404, "Item not found in cart", cs)
        ELSE IF ~ps[productId].exists THEN cartResp(404, "Product not found", cs)
        ELSE IF ps[productId].trackQuantity /\ ps[productId].quantity < quantity
        THEN cartResp(400, "Insufficient inventory", cs)
        ELSE
          LET items == [cart.items EXCEPT
                          ![k].quantity = quantity,
                          ![k].total = quantity * cart.items[k].price]
              saved == cartSave(cs, idx, [cart EXCEPT !.items = items])
          IN IF ~saved.ok THEN cartResp(500, "Error updating cart", cs)
             ELSE cartResp(200, "Cart updated successfully", saved.carts)

\* router.delete('/remove')
cartRemove(cs, userId, sessionId, productId) ==
    IF productId = Null THEN cartResp(400, "Product ID is required", cs)
    ELSE IF userId = Null /\ sessionId = Null
    THEN cartResp(400, "Authentication or session ID required", cs)
    ELSE
      LET idx == cartFindOne(cs, cartQuery(userId, sessionId)) IN
      IF idx = 0 THEN cartResp(404, "Cart not found", cs)
      ELSE
        LET cart  == cs[idx]
            items == SelectSeq(cart.items, LAMBDA it : it.product # productId)
            saved == cartSave(cs, idx, [cart EXCEPT !.items = items])
        IN IF ~saved.ok THEN cartResp(500, "Error removing item from cart", cs)
           ELSE cartResp(200, "Item removed from cart successfully", saved.carts)

\* router.delete('/clear')
cartClear(cs, userId, sessionId) ==
    IF userId = Null /\ sessionId = Null
    THEN cartResp(400, "Authentication or session ID required", cs)
    ELSE
      LET idx == cartFindOne(cs, cartQuery(userId, sessionId)) IN
      IF idx = 0 THEN cartResp(404, "Cart not found", cs)
      ELSE
        LET saved == cartSave(cs, idx,
                       [cs[idx] EXCEPT !.items = <<>>, !.totals = ZeroTotals])
        IN IF ~saved.ok THEN cartResp(500, "Error clearing cart", cs)
           ELSE cartResp(200, "Cart cleared successfully", saved.carts)

\* the fold of router.post('/merge'): session items into the user cart's items
RECURSIVE mergeItems(_, _)
mergeItems(userItems, sessionItems) ==
    IF sessionItems = <<>> THEN userItems
    ELSE
      LET sessionItem == Head(sessionItems)
          k == lineIdx(userItems, sessionItem.product)
          folded == IF k > 0
                    THEN [userItems EXCEPT
                            ![k].quantity = @ + sessionItem.quantity,
                            ![k].total = (userItems[k].quantity + sessionItem.quantity)
                                           * userItems[k].price]
                    ELSE Append(userItems, sessionItem)
      IN mergeItems(folded, Tail(sessionItems))

\* router.post('/merge') (authenticated: userId is never Null)
cartMerge(cs, now, userId, sessionId) ==
    IF sessionId = Null THEN cartResp(200, "No session cart to merge", cs)
    ELSE
      LET sidx == cartFindOne(cs, [sessionId |-> sessionId]) IN
      IF sidx = 0 \/ (sidx > 0 /\ cs[sidx].items = <<>>)
      THEN cartResp(200, "No session cart found to merge", cs)
      ELSE
        LET sessionCart == cs[sidx]
            uidx     == cartFindOne(cs, [user |-> userId])
            userCart == IF uidx = 0
                        THEN newCart(userId, Null, sessionCart.items,
                                     sessionCart.totals, now)
                        ELSE [cs[uidx] EXCEPT
                                !.items = mergeItems(cs[uidx].items, sessionCart.items)]
            saved    == cartSave(cs, uidx, userCart)
        IN
        IF ~saved.ok THEN cartResp(500, "Server error during cart merge", cs)
        ELSE
          \* Cart.findOneAndDelete({ sessionId })
          LET didx == cartFindOne(saved.carts, [sessionId |-> sessionId]) IN
          cartResp(200, "Carts merged successfully",
                   IF didx = 0 THEN saved.carts ELSE RemoveAt(saved.carts, didx))
----------------------------------------------------------------------------
(* Product and Order models (models/Product.ts, models/Order.ts) *)

\* productSchema validators run by product.save(): inventory.quantity min 0
productValid(product) == product.quantity >= 0

\* variant of orderPreSave that adds the items' sum to the stored subtotal
\* instead of replacing it
orderPreSaveAccumulates(order) ==
    LET subtotal == order.totals.subtotal
                      + SumSeq(SeqMap(order.items, LAMBDA it : it.total))
        tax      == RoundDiv(subtotal, 10)
        shipping == IF subtotal >= 10000 THEN 0 ELSE 1000
    IN [order EXCEPT !.totals = [subtotal |-> subtotal, tax |-> tax,
                                 shipping |-> shipping,
                                 total |-> subtotal + tax + shipping]]

\* OrderSchema.pre('save'): totals recomputed from the items
orderPreSave(order) ==
    LET subtotal == SumSeq(SeqMap(order.items, LAMBDA it : it.total))
        tax      == RoundDiv(subtotal, 10)
        shipping == IF subtotal >= 10000 THEN 0 ELSE 1000
    IN [order EXCEPT !.totals = [subtotal |-> subtotal, tax |-> tax,
                                 shipping |-> shipping,
                                 total |-> subtotal + tax + shipping]]

PaymentMethods == {"credit_card", "debit_card", "paypal", "stripe", "cash_on_delivery"}

\* OrderSchema validators: required address with its required fields, the
\* paymentMethod enum, the item minima
orderValid(order) ==
    /\ order.shippingAddress = "address"
    /\ order.paymentMethod \in PaymentMethods
    /\ \A i \in 1..Len(order.items) :
          /\ order.items[i].price >= 0
          /\ order.items[i].quantity >= 1
          /\ order.items[i].total >= 0

\* order.save() of a stored order the handler has changed: the pre-save hook
\* runs on every save
orderSave(os, orderId, order) == [os EXCEPT ![orderId] = orderPreSave(order)]

----------------------------------------------------------------------------
(* Request handlers of routes/orders.ts, one step per awaited database call. *)
(* db is [products, carts, orders]; loc is the handler's position and locals *)

\* placeholders of a handler's cart and product locals before they are read
NoCart ==
    [sessionId |-> Null, user |-> Null, items |-> <<>>, totals |-> ZeroTotals,
     expiresAt |-> 0]

NoProduct ==
    [exists |-> FALSE, name |-> Null, regular |-> 0, sale |-> 0, quantity |-> 0,
     trackQuantity |-> FALSE, isActive |-> FALSE, purchases |-> 0, revenue |-> 0]

IdleReq ==
    [op |-> "none", user |-> Null, pc |-> "idle", shippingAddress |-> Null,
     paymentMethod |-> Null, cart |-> NoCart, i |-> 0, orderId |-> 0,
     prod |-> NoProduct, applied |-> {}, status |-> 0, message |-> "",
     sessionId |-> Null, productId |-> Null, quantity |-> 0, now |-> 0]

\* res.status(status).json({ message }); return
respond(db, loc, status, message) ==
    [db |-> db, loc |-> [loc EXCEPT !.pc = "done", !.status = status,
                                    !.message = message]]

goto(db, loc, pc) == [db |-> db, loc |-> [loc EXCEPT !.pc = pc]]

\* variant of buildOrderItems that takes each line's price from the catalog
\* as it is at checkout
RECURSIVE buildOrderItemsRefetch(_, _)
buildOrderItemsRefetch(ps, items) ==
    IF items = <<>> THEN <<>>
    ELSE LET item == Head(items)
             rest == buildOrderItemsRefetch(ps, Tail(items))
         IN IF ps[item.product].exists
            THEN <<[product |-> item.product, name |-> ps[item.product].name,
                    price |-> itemPrice(ps[item.product]),
                    quantity |-> item.quantity,
                    total |-> item.quantity * itemPrice(ps[item.product])]>> \o rest
            ELSE rest

\* the order items built from the cart snapshot: lines whose product is gone
\* are skipped, name is the product's current name, price and total the cart's
RECURSIVE buildOrderItems(_, _)
buildOrderItems(ps, items) ==
    IF items = <<>> THEN <<>>
    ELSE LET item == Head(items)
             rest == buildOrderItems(ps, Tail(items))
         IN IF ps[item.product].exists
            THEN <<[product |-> item.product, name |-> ps[item.product].name,
                    price |-> item.price, quantity |-> item.quantity,
                    total |-> item.total]>> \o rest
            ELSE rest

\* variant of checkoutAdjust that counts one unit whatever the line's quantity
checkoutAdjustOne(product, item) ==
    [product EXCEPT !.quantity = @ - 1,
                    !.purchases = @ + 1,
                    !.revenue = @ + item.price]

\* checkout: the decrement computed on the product read by findById
checkoutAdjust(product, item) ==
    [product EXCEPT !.quantity = @ - item.quantity,
                    !.purchases = @ + item.quantity,
                    !.revenue = @ + item.total]

\* variant of cancelAdjust that forgets the revenue
cancelAdjustNoRevenue(product, item) ==
    [product EXCEPT !.quantity = @ + item.quantity,
                    !.purchases = @ - item.quantity]

\* cancel: the restoration computed on the product read by findById
cancelAdjust(product, item) ==
    [product EXCEPT !.quantity = @ + item.quantity,
                    !.purchases = @ - item.quantity,
                    !.revenue = @ - item.total]

\* product.save() of a document changed by checkout or cancel: the modified
\* paths are written over the stored document
productWrite(stored, local) ==
    [stored EXCEPT !.quantity = local.quantity,
                   !.purchases = local.purchases,
                   !.revenue = local.revenue]

\* checkout: the required fields, then Cart.findOne({ user })
checkoutStart(db, loc) ==
    IF loc.shippingAddress = Null \/ loc.paymentMethod = Null
    THEN respond(db, loc, 400, "Shipping address and payment method are required")
    ELSE LET idx == cartFindOne(db.carts, [user |-> loc.user]) IN
         IF idx = 0 \/ (idx > 0 /\ db.carts[idx].items = <<>>)
         THEN respond(db, loc, 400, "Cart is empty")
         ELSE [db |-> db,
               loc |-> [loc EXCEPT !.pc = "validate", !.i = 1,
                                   !.cart = db.carts[idx]]]

\* variant of checkoutValidate that takes a line's units from the stock as soon
\* as the line is verified, before the later lines are looked at
checkoutValidateEager(db, loc) ==
    LET item    == loc.cart.items[loc.i]
        product == db.products[item.product]
        db2     == IF product.trackQuantity
                   THEN [db EXCEPT !.products[item.product] =
                                      checkoutAdjust(product, item)]
                   ELSE db
    IN IF ~product.exists THEN respond(db, loc, 400, "Product not found")
       ELSE IF ~product.isActive
       THEN respond(db, loc, 400, "Product is no longer available")
       ELSE IF product.trackQuantity /\ product.quantity < item.quantity
       THEN respond(db, loc, 400, "Insufficient inventory")
       ELSE IF loc.i < Len(loc.cart.items)
       THEN [db |-> db2, loc |-> [loc EXCEPT !.i = @ + 1]]
       ELSE goto(db2, loc, "createOrder")

\* checkout: one turn of the loop that verifies the cart lines against the
\* products as they are now
\* (the messages stand for the code's, which also name the product)
checkoutValidate(db, loc) ==
    LET item    == loc.cart.items[loc.i]
        product == db.products[item.product]
    IN IF ~product.exists THEN respond(db, loc, 400, "Product not found")
       ELSE IF ~product.isActive
       THEN respond(db, loc, 400, "Product is no longer available")
       ELSE IF product.trackQuantity /\ product.quantity < item.quantity
       THEN respond(db, loc, 400, "Insufficient inventory")
       ELSE IF loc.i < Len(loc.cart.items)
       THEN [db |-> db, loc |-> [loc EXCEPT !.i = @ + 1]]
       ELSE goto(db, loc, "createOrder")

\* checkout: the order items (a loop that only reads each product's name),
\* new Order(...) and order.save()
checkoutCreateOrder(db, loc) ==
    LET order == [user |-> loc.user,
                  items |-> buildOrderItems(db.products, loc.cart.items),
                  totals |-> loc.cart.totals,
                  shippingAddress |-> loc.shippingAddress,
                  paymentMethod |-> loc.paymentMethod,
                  paymentStatus |-> "pending",
                  orderStatus |-> "pending",
                  paymentIntentId |-> 0,
                  paidAt |-> 0, refundedAt |-> 0, deliveredAt |-> 0]
    IN IF ~orderValid(order)
       THEN respond(db, loc, 500, "Error creating order")
       ELSE [db |-> [db EXCEPT !.orders = Append(@, orderPreSave(order))],
             loc |-> [loc EXCEPT !.pc = "adjustRead", !.i = 1,
                                 !.orderId = Len(db.orders) + 1]]

\* checkout: Product.findById of the inventory loop and the change made on
\* the document read
checkoutAdjustRead(db, loc) ==
    LET item    == loc.cart.items[loc.i]
        product == db.products[item.product]
    IN IF product.exists /\ product.trackQuantity
       THEN [db |-> db,
             loc |-> [loc EXCEPT !.pc = "adjustWrite",
                                 !.prod = checkoutAdjust(product, item)]]
       ELSE IF loc.i < Len(loc.cart.items)
       THEN [db |-> db, loc |-> [loc EXCEPT !.i = @ + 1]]
       ELSE goto(db, loc, "deleteCart")

\* checkout: product.save() of the inventory loop; a rejected save throws
\* into the handler's catch. applied records the lines written so far.
checkoutAdjustWrite(db, loc) ==
    LET item == loc.cart.items[loc.i] IN
    IF ~productValid(loc.prod) \/ ~db.products[item.product].exists
    THEN respond(db, [loc EXCEPT !.prod = NoProduct], 500, "Error creating order")
    ELSE [db |-> [db EXCEPT !.products[item.product] = productWrite(@, loc.prod)],
          loc |-> [loc EXCEPT !.prod = NoProduct,
                              !.applied = @ \cup {loc.i},
                              !.i = IF loc.i < Len(loc.cart.items) THEN @ + 1 ELSE @,
                              !.pc = IF loc.i < Len(loc.cart.items)
                                     THEN "adjustRead" ELSE "deleteCart"]]

\* checkout: Cart.findOneAndDelete({ user }), then the order is read back
\* for the 201 response
checkoutDeleteCart(db, loc) ==
    LET idx == cartFindOne(db.carts, [user |-> loc.user]) IN
    respond([db EXCEPT !.carts = IF idx = 0 THEN @ ELSE RemoveAt(@, idx)],
            loc, 201, "Order created successfully")

\* router.post('/checkout'), one step per awaited database call
checkoutStep(db, loc) ==
    CASE loc.pc = "start"       -> checkoutStart(db, loc)
      [] loc.pc = "validate"    -> checkoutValidate(db, loc)
      [] loc.pc = "createOrder" -> checkoutCreateOrder(db, loc)
      [] loc.pc = "adjustRead"  -> checkoutAdjustRead(db, loc)
      [] loc.pc = "adjustWrite" -> checkoutAdjustWrite(db, loc)
      [] loc.pc = "deleteCart"  -> checkoutDeleteCart(db, loc)

\* variant of cancelStart without the status check
cancelStartAnyStatus(db, loc) ==
    IF loc.orderId \notin 1..Len(db.orders)
       \/ (loc.orderId \in 1..Len(db.orders)
             /\ db.orders[loc.orderId].user # loc.user)
    THEN respond(db, loc, 404, "Order not found")
    ELSE goto(db, loc, "saveOrder")

\* cancel: Order.findOne({ _id, user }) and the status check
cancelStart(db, loc) ==
    IF loc.orderId \notin 1..Len(db.orders)
       \/ (loc.orderId \in 1..Len(db.orders)
             /\ db.orders[loc.orderId].user # loc.user)
    THEN respond(db, loc, 404, "Order not found")
    ELSE IF db.orders[loc.orderId].orderStatus \notin {"pending", "confirmed"}
    THEN respond(db, loc, 400, "Order cannot be cancelled at this stage")
    ELSE goto(db, loc, "saveOrder")

\* cancel: order.orderStatus = 'cancelled'; order.save()
cancelSaveOrder(db, loc) ==
    LET db2 == [db EXCEPT !.orders =
                  orderSave(@, loc.orderId,
                            [db.orders[loc.orderId] EXCEPT !.orderStatus = "cancelled"])]
    IN
    IF db.orders[loc.orderId].items = <<>>
    THEN respond(db2, loc, 200, "Order cancelled successfully")
    ELSE [db |-> db2, loc |-> [loc EXCEPT !.pc = "adjustRead", !.i = 1]]

\* cancel: Product.findById of the restore loop and the change made on the
\* document read
cancelAdjustRead(db, loc) ==
    LET item    == db.orders[loc.orderId].items[loc.i]
        product == db.products[item.product]
        n       == Len(db.orders[loc.orderId].items)
    IN IF product.exists /\ product.trackQuantity
       THEN [db |-> db,
             loc |-> [loc EXCEPT !.pc = "adjustWrite",
                                 !.prod = cancelAdjust(product, item)]]
       ELSE IF loc.i < n
       THEN [db |-> db, loc |-> [loc EXCEPT !.i = @ + 1]]
       ELSE respond(db, loc, 200, "Order cancelled successfully")

\* cancel: product.save() of the restore loop
cancelAdjustWrite(db, loc) ==
    LET item == db.orders[loc.orderId].items[loc.i]
        n    == Len(db.orders[loc.orderId].items)
    IN
    IF ~productValid(loc.prod) \/ ~db.products[item.product].exists
    THEN respond(db, [loc EXCEPT !.prod = NoProduct], 500, "Error cancelling order")
    ELSE LET db2  == [db EXCEPT !.products[item.product] = productWrite(@, loc.prod)]
             loc2 == [loc EXCEPT !.prod = NoProduct, !.applied = @ \cup {loc.i}]
         IN IF loc.i < n
            THEN [db |-> db2, loc |-> [loc2 EXCEPT !.i = @ + 1, !.pc = "adjustRead"]]
            ELSE respond(db2, loc2, 200, "Order cancelled successfully")

\* router.patch('/:id/cancel'), one step per awaited database call
cancelStep(db, loc) ==
    CASE loc.pc = "start"       -> cancelStart(db, loc)
      [] loc.pc = "saveOrder"   -> cancelSaveOrder(db, loc)
      [] loc.pc = "adjustRead"  -> cancelAdjustRead(db, loc)
      [] loc.pc = "adjustWrite" -> cancelAdjustWrite(db, loc)

\* add to cart: the required fields, Product.findById and the stock check
addStart(db, loc) ==
    IF loc.productId = Null THEN respond(db, loc, 400, "Product ID is required")
    ELSE IF loc.user = Null /\ loc.sessionId = Null
    THEN respond(db, loc, 400, "Authentication or session ID required")
    ELSE LET product == db.products[loc.productId] IN
         IF ~product.exists THEN respond(db, loc, 404, "Product not found")
         ELSE IF product.trackQuantity /\ product.quantity < loc.quantity
         THEN respond(db, loc, 400, "Insufficient inventory")
         ELSE [db |-> db, loc |-> [loc EXCEPT !.pc = "findCart", !.prod = product]]

\* add to cart: Cart.findOne(query), new Cart(...) when there is none, and the
\* line added to the document in memory; i = 0 says the document is new
addFindCart(db, loc) ==
    LET idx   == cartFindOne(db.carts, cartQuery(loc.user, loc.sessionId))
        cart  == IF idx = 0
                 THEN newCart(loc.user, loc.sessionId, <<>>, ZeroTotals, loc.now)
                 ELSE db.carts[idx]
        k     == lineIdx(cart.items, loc.productId)
        price == itemPrice(loc.prod)
        items == IF k > 0
                 THEN [cart.items EXCEPT
                         ![k].quantity = @ + loc.quantity,
                         ![k].total = (cart.items[k].quantity + loc.quantity) * price]
                 ELSE Append(cart.items, newLine(loc.productId, loc.quantity, price))
    IN [db |-> db,
        loc |-> [loc EXCEPT !.pc = "save", !.i = idx,
                            !.cart = [cart EXCEPT !.items = items]]]

\* add to cart: cart.save() and the 201 response
addSave(db, loc) ==
    LET saved == cartSave(db.carts, loc.i, loc.cart) IN
    IF ~saved.ok THEN respond(db, loc, 500, "Error adding item to cart")
    ELSE respond([db EXCEPT !.carts = saved.carts], loc, 201,
                 "Item added to cart successfully")

\* router.post('/add'), one step per awaited database call
addStep(db, loc) ==
    CASE loc.pc = "start"    -> addStart(db, loc)
      [] loc.pc = "findCart" -> addFindCart(db, loc)
      [] loc.pc = "save"     -> addSave(db, loc)

addReq(now, userId, sessionId, productId, quantity) ==
    [IdleReq EXCEPT !.op = "add", !.user = userId, !.pc = "start",
                    !.sessionId = sessionId, !.productId = productId,
                    !.quantity = quantity, !.now = now]

handlerStep(db, loc) ==
    CASE loc.op = "checkout" -> checkoutStep(db, loc)
      [] loc.op = "cancel"   -> cancelStep(db, loc)
      [] loc.op = "add"      -> addStep(db, loc)

\* a handler run from its current position to its response, without interference
RECURSIVE handlerRun(_, _)
handlerRun(db, loc) ==
    IF loc.pc = "done" THEN [db |-> db, loc |-> loc]
    ELSE LET r == handlerStep(db, loc) IN handlerRun(r.db, r.loc)

checkoutReq(userId, shippingAddress, paymentMethod) ==
    [IdleReq EXCEPT !.op = "checkout", !.user = userId, !.pc = "start",
                    !.shippingAddress = shippingAddress,
                    !.paymentMethod = paymentMethod]

cancelReq(userId, orderId) ==
    [IdleReq EXCEPT !.op = "cancel", !.user = userId, !.pc = "start",
                    !.orderId = orderId]
----------------------------------------------------------------------------
(* Payment provider (services/stripe.ts) and routes/payments.ts.            *)
(* An intent is [orderId, status, failed, refunded]: orderId is the         *)
(* metadata.orderId given at creation, failed says that the provider has    *)
(* emitted a payment_intent.payment_failed event for it.                    *)

orderFound(os, orderId, userId) ==
    orderId \in 1..Len(os) /\ os[orderId].user = userId

payResp(status, message, os, is) ==
    [status |-> status, message |-> message, orders |-> os, intents |-> is]

\* router.post('/create-payment-intent'); providerOk: stripe.paymentIntents.create
\* returned an intent
createPaymentIntentRoute(os, is, userId, orderId, providerOk) ==
    IF orderId = 0 THEN payResp(400, "Order ID is required", os, is)
    ELSE IF ~orderFound(os, orderId, userId) THEN payResp(404, "Order not found", os, is)
    ELSE IF os[orderId].paymentStatus # "pending"
    THEN payResp(400, "Order payment is not pending", os, is)
    ELSE IF ~providerOk THEN payResp(500, "Failed to create payment intent", os, is)
    ELSE LET is2 == Append(is, [orderId |-> orderId,
                                status |-> "requires_payment_method",
                                failed |-> FALSE, refunded |-> FALSE])
         IN payResp(200, "Payment intent created successfully",
                    orderSave(os, orderId,
                              [os[orderId] EXCEPT !.paymentIntentId = Len(is2)]),
                    is2)

\* variant of markPaid that moves the order straight to processing
markPaidProcessing(order, now) ==
    [order EXCEPT !.paymentStatus = "paid", !.orderStatus = "processing",
                  !.paidAt = now]

\* markPaid as written in confirm-payment and in the webhook
markPaid(order, now) ==
    [order EXCEPT !.paymentStatus = "paid", !.orderStatus = "confirmed",
                  !.paidAt = now]

\* markFailed as written in confirm-payment and in the webhook
markFailed(order) == [order EXCEPT !.paymentStatus = "failed"]

\* router.post('/confirm-payment'); paymentIntentId 0 is an absent id, an id the
\* provider does not know makes stripe.paymentIntents.retrieve throw
confirmPaymentRoute(os, is, now, userId, orderId, paymentIntentId) ==
    IF orderId = 0 \/ paymentIntentId = 0
    THEN payResp(400, "Order ID and Payment Intent ID are required", os, is)
    ELSE IF ~orderFound(os, orderId, userId) THEN payResp(404, "Order not found", os, is)
    ELSE IF paymentIntentId \notin 1..Len(is)
    THEN payResp(500, "Failed to confirm payment", os, is)
    ELSE LET status == is[paymentIntentId].status
             order  == IF status = "succeeded" THEN markPaid(os[orderId], now)
                       ELSE IF status = "requires_payment_method"
                       THEN markFailed(os[orderId])
                       ELSE os[orderId]
         IN payResp(200, "Payment confirmed successfully",
                    orderSave(os, orderId, order), is)

\* stripe.refunds.create: the provider refunds a succeeded intent once
refundPayment(is, paymentIntentId, providerOk) ==
    /\ providerOk
    /\ paymentIntentId \in 1..Len(is)
    /\ is[paymentIntentId].status = "succeeded"
    /\ ~is[paymentIntentId].refunded

\* variant of refundRoute that marks the order before it knows the outcome of
\* the provider's refund
refundRouteMarksFirst(os, is, now, userId, orderId, providerOk) ==
    IF orderId \notin 1..Len(os) THEN payResp(404, "Order not found", os, is)
    ELSE IF os[orderId].paymentStatus # "paid"
    THEN payResp(400, "Order has not been paid", os, is)
    ELSE IF os[orderId].paymentIntentId = 0
    THEN payResp(400, "No payment intent found for this order", os, is)
    ELSE LET os2 == [os EXCEPT ![orderId].paymentStatus = "refunded",
                               ![orderId].orderStatus = "cancelled",
                               ![orderId].refundedAt = now]
         IN IF ~refundPayment(is, os[orderId].paymentIntentId, providerOk)
            THEN payResp(500, "Failed to process refund", os2, is)
            ELSE payResp(200, "Refund processed successfully", os2,
                         [is EXCEPT ![os[orderId].paymentIntentId].refunded = TRUE])

\* variant of refundRoute that leaves the order's orderStatus as it is
refundRouteKeepsStatus(os, is, now, userId, orderId, providerOk) ==
    IF orderId \notin 1..Len(os) THEN payResp(404, "Order not found", os, is)
    ELSE IF os[orderId].paymentStatus # "paid"
    THEN payResp(400, "Order has not been paid", os, is)
    ELSE IF os[orderId].paymentIntentId = 0
    THEN payResp(400, "No payment intent found for this order", os, is)
    ELSE IF ~refundPayment(is, os[orderId].paymentIntentId, providerOk)
    THEN payResp(500, "Failed to process refund", os, is)
    ELSE payResp(200, "Refund processed successfully",
                 orderSave(os, orderId,
                           [os[orderId] EXCEPT !.paymentStatus = "refunded",
                                               !.refundedAt = now]),
                 [is EXCEPT ![os[orderId].paymentIntentId].refunded = TRUE])

\* router.post('/refund'): the $or in the lookup matches every order that has
\* a user, so the requester is not compared with the owner
refundRoute(os, is, now, userId, orderId, providerOk) ==
    IF orderId \notin 1..Len(os) THEN payResp(404, "Order not found", os, is)
    ELSE IF os[orderId].paymentStatus # "paid"
    THEN payResp(400, "Order has not been paid", os, is)
    ELSE IF os[orderId].paymentIntentId = 0
    THEN payResp(400, "No payment intent found for this order", os, is)
    ELSE IF ~refundPayment(is, os[orderId].paymentIntentId, providerOk)
    THEN payResp(500, "Failed to process refund", os, is)
    ELSE payResp(200, "Refund processed successfully",
                 orderSave(os, orderId,
                           [os[orderId] EXCEPT !.paymentStatus = "refunded",
                                               !.orderStatus = "cancelled",
                                               !.refundedAt = now]),
                 [is EXCEPT ![os[orderId].paymentIntentId].refunded = TRUE])

\* variant of webhookRoute whose payment_intent.succeeded case marks the order
\* paid without confirming it
webhookRoutePaidOnly(os, is, now, signatureOk, type, intentId) ==
    IF ~signatureOk THEN payResp(400, "Webhook signature verification failed", os, is)
    ELSE LET orderId == is[intentId].orderId IN
         IF type = "payment_intent.succeeded" /\ orderId \in 1..Len(os)
         THEN payResp(200, "received",
                      [os EXCEPT ![orderId].paymentStatus = "paid",
                                 ![orderId].paidAt = now], is)
         ELSE IF type = "payment_intent.payment_failed" /\ orderId \in 1..Len(os)
         THEN payResp(200, "received", [os EXCEPT ![orderId] = markFailed(@)], is)
         ELSE payResp(200, "received", os, is)

\* variant of webhookRoute that handles the event whatever the outcome of the
\* signature check
webhookRouteUnverified(os, is, now, signatureOk, type, intentId) ==
    LET orderId == is[intentId].orderId IN
    IF type = "payment_intent.succeeded" /\ orderId \in 1..Len(os)
    THEN payResp(200, "received",
                 orderSave(os, orderId, markPaid(os[orderId], now)), is)
    ELSE IF type = "payment_intent.payment_failed" /\ orderId \in 1..Len(os)
    THEN payResp(200, "received",
                 orderSave(os, orderId, markFailed(os[orderId])), is)
    ELSE payResp(200, "received", os, is)

\* router.post('/webhook'): signatureOk is the outcome of
\* stripe.webhooks.constructEvent; the event names an intent of the provider
webhookRoute(os, is, now, signatureOk, type, intentId) ==
    IF ~signatureOk THEN payResp(400, "Webhook signature verification failed", os, is)
    ELSE LET orderId == is[intentId].orderId IN
         IF type = "payment_intent.succeeded" /\ orderId \in 1..Len(os)
         THEN payResp(200, "received",
                      orderSave(os, orderId, markPaid(os[orderId], now)), is)
         ELSE IF type = "payment_intent.payment_failed" /\ orderId \in 1..Len(os)
         THEN payResp(200, "received",
                      orderSave(os, orderId, markFailed(os[orderId])), is)
         ELSE payResp(200, "received", os, is)

OrderStatuses == {"pending", "confirmed", "processing", "shipped", "delivered", "cancelled"}
PaymentStatuses == {"pending", "paid", "failed", "refunded"}

\* router.patch('/admin/:id/status'); Null is an absent field
adminStatusRoute(os, now, role, orderId, orderStatus, paymentStatus) ==
    IF role # "admin" THEN [status |-> 403, message |-> "Access denied. Admin only.",
                            orders |-> os]
    ELSE IF orderId \notin 1..Len(os)
    THEN [status |-> 404, message |-> "Order not found", orders |-> os]
    ELSE LET o1 == IF orderStatus # Null
                   THEN [os[orderId] EXCEPT !.orderStatus = orderStatus]
                   ELSE os[orderId]
             o2 == IF paymentStatus # Null
                   THEN [o1 EXCEPT !.paymentStatus = paymentStatus] ELSE o1
             o3 == IF orderStatus = "delivered"
                   THEN [o2 EXCEPT !.deliveredAt = now] ELSE o2
         IN [status |-> 200, message |-> "Order updated successfully",
             orders |-> orderSave(os, orderId, o3)]
\* router.put('/:id') of routes/products.ts: body holds the fields of the
\* request among name, price and isActive; the sale price must be below the
\* regular price
updateProduct(ps, productId, body) ==
    IF ~ps[productId].exists THEN [status |-> 404, products |-> ps]
    ELSE LET p1 == IF "name" \in DOMAIN body
                   THEN [ps[productId] EXCEPT !.name = body.name]
                   ELSE ps[productId]
             p2 == IF "price" \in DOMAIN body
                   THEN [p1 EXCEPT !.regular = body.price.regular,
                                   !.sale = body.price.sale]
                   ELSE p1
             p3 == IF "isActive" \in DOMAIN body
                   THEN [p2 EXCEPT !.isActive = body.isActive] ELSE p2
         IN IF p3.sale # 0 /\ p3.sale >= p3.regular
            THEN [status |-> 500, products |-> ps]
            ELSE [status |-> 200, products |-> [ps EXCEPT ![productId] = p3]]

\* router.delete('/:id') of routes/products.ts
deleteProduct(ps, productId) ==
    IF ~ps[productId].exists THEN [status |-> 404, products |-> ps]
    ELSE [status |-> 200, products |-> [ps EXCEPT ![productId] = NoProduct]]

----------------------------------------------------------------------------
(* The state machine *)

Last(op, user, orderId, intentId, status, message) ==
    [op |-> op, user |-> user, orderId |-> orderId, intentId |-> intentId,
     status |-> status, message |-> message]

NewProduct(name, regular, sale, quantity, track) ==
    [exists |-> TRUE, name |-> name, regular |-> regular, sale |-> sale,
     quantity |-> quantity, trackQuantity |-> track, isActive |-> TRUE,
     purchases |-> 0, revenue |-> 0]

DB == [products |-> products, carts |-> carts, orders |-> orders]

RequestIds == {"r1", "r2"}

\* the model follows a product's stock up to MaxStock + MaxLine units
stockCap(ps) == \A p \in ProductIds : ps[p].quantity <= MaxStock + MaxLine

lineCap(cs) ==
    \A c \in 1..Len(cs) : \A k \in 1..Len(cs[c].items) :
        cs[c].items[k].quantity <= MaxLine

\* everything but the catalog after construction
InitRest ==
    /\ carts = <<>>
    /\ orders = <<>>
    /\ intents = <<>>
    /\ clock = 1
    /\ reqs = [r \in RequestIds |-> IdleReq]
    /\ last = Last("init", Null, 0, 0, 0, "")
    /\ initial = products
    /\ ckpt = [orderId |-> 0, before |-> products, after |-> products]

\* the catalog at the start: p1 tracked with MaxStock units at 60.00, p2 at
\* 20.00 with one unit, tracked or not
Catalog(track) ==
    [p \in ProductIds |->
       IF p = "p1" THEN NewProduct("n1", 6000, 0, MaxStock, TRUE)
       ELSE NewProduct("n2", 2000, 0, 1, track)]

Init ==
    /\ \E track \in BOOLEAN : products = Catalog(track)
    /\ InitRest

InitCart ==
    /\ products = Catalog(FALSE)
    /\ InitRest

CartAdd(userId, sessionId, productId, quantity) ==
    LET r == cartAdd(carts, products, clock, userId, sessionId, productId,
                     quantity) IN
    /\ lineCap(r.carts)
    /\ carts' = r.carts
    /\ last' = Last("add", userId, 0, 0, r.status, r.message)
    /\ UNCHANGED <<products, orders, intents, clock, reqs, initial, ckpt>>

CartUpdate(userId, sessionId, productId, quantity) ==
    LET r == cartUpdate(carts, products, userId, sessionId, productId, quantity) IN
    /\ carts' = r.carts
    /\ last' = Last("update", userId, 0, 0, r.status, r.message)
    /\ UNCHANGED <<products, orders, intents, clock, reqs, initial, ckpt>>

CartRemove(userId, sessionId, productId) ==
    LET r == cartRemove(carts, userId, sessionId, productId) IN
    /\ carts' = r.carts
    /\ last' = Last("remove", userId, 0, 0, r.status, r.message)
    /\ UNCHANGED <<products, orders, intents, clock, reqs, initial, ckpt>>

CartClear(userId, sessionId) ==
    LET r == cartClear(carts, userId, sessionId) IN
    /\ carts' = r.carts
    /\ last' = Last("clear", userId, 0, 0, r.status, r.message)
    /\ UNCHANGED <<products, orders, intents, clock, reqs, initial, ckpt>>

CartMerge(userId, sessionId) ==
    LET r == cartMerge(carts, clock, userId, sessionId) IN
    /\ lineCap(r.carts)
    /\ carts' = r.carts
    /\ last' = Last("merge", userId, 0, 0, r.status, r.message)
    /\ UNCHANGED <<products, orders, intents, clock, reqs, initial, ckpt>>

\* a checkout request handled without interference
Checkout(userId, shippingAddress, paymentMethod) ==
    LET r == handlerRun(DB, checkoutReq(userId, shippingAddress, paymentMethod)) IN
    /\ Len(r.db.orders) <= MaxOrders
    /\ products' = r.db.products
    /\ carts' = r.db.carts
    /\ orders' = r.db.orders
    /\ last' = Last("checkout", userId, r.loc.orderId, 0, r.loc.status, r.loc.message)
    /\ ckpt' = IF r.loc.status = 201
               THEN [orderId |-> r.loc.orderId, before |-> products,
                     after |-> r.db.products]
               ELSE ckpt
    /\ UNCHANGED <<intents, clock, reqs, initial>>

\* a cancel request handled without interference
CancelOrder(userId, orderId) ==
    LET r == handlerRun(DB, cancelReq(userId, orderId)) IN
    /\ stockCap(r.db.products)
    /\ products' = r.db.products
    /\ orders' = r.db.orders
    /\ last' = Last("cancel", userId, orderId, 0, r.loc.status, r.loc.message)
    /\ UNCHANGED <<carts, intents, clock, reqs, initial, ckpt>>

\* a create-payment-intent request, the model following at most bound intents
CreatePaymentIntentUpTo(bound, userId, orderId, providerOk) ==
    LET r == createPaymentIntentRoute(orders, intents, userId, orderId, providerOk) IN
    /\ Len(r.intents) <= bound
    /\ orders' = r.orders
    /\ intents' = r.intents
    /\ last' = Last("create-payment-intent", userId, orderId, 0, r.status, r.message)
    /\ UNCHANGED <<products, carts, clock, reqs, initial, ckpt>>

CreatePaymentIntent(userId, orderId, providerOk) ==
    CreatePaymentIntentUpTo(MaxIntents, userId, orderId, providerOk)

\* the requests below read the clock: now is the instant they are handled at
ConfirmPayment(now, userId, orderId, paymentIntentId) ==
    LET r == confirmPaymentRoute(orders, intents, now, userId, orderId,
                                 paymentIntentId) IN
    /\ orders' = r.orders
    /\ clock' = now
    /\ last' = Last("confirm-payment", userId, orderId, paymentIntentId,
                    r.status, r.message)
    /\ UNCHANGED <<products, carts, intents, reqs, initial, ckpt>>

Refund(now, userId, orderId, providerOk) ==
    LET r == refundRoute(orders, intents, now, userId, orderId, providerOk) IN
    /\ orders' = r.orders
    /\ intents' = r.intents
    /\ clock' = now
    /\ last' = Last("refund", userId, orderId, 0, r.status, r.message)
    /\ UNCHANGED <<products, carts, reqs, initial, ckpt>>

\* a webhook request: with a valid signature it carries an event the provider
\* has emitted for one of its intents (in any order, any number of times)
Webhook(now, signatureOk, type, intentId) ==
    /\ signatureOk =>
         \/ type = "payment_intent.succeeded" /\ intents[intentId].status = "succeeded"
         \/ type = "payment_intent.payment_failed" /\ intents[intentId].failed
         \/ type = "payment_intent.created"
    /\ LET r == webhookRoute(orders, intents, now, signatureOk, type, intentId) IN
       /\ orders' = r.orders
       /\ clock' = now
       /\ last' = Last(IF signatureOk THEN type ELSE "webhook", Null,
                       intents[intentId].orderId, intentId, r.status, r.message)
    /\ UNCHANGED <<products, carts, intents, reqs, initial, ckpt>>

AdminUpdateStatus(now, role, orderId, orderStatus, paymentStatus) ==
    LET r == adminStatusRoute(orders, now, role, orderId, orderStatus,
                              paymentStatus) IN
    /\ orders' = r.orders
    /\ clock' = now
    /\ last' = Last("admin-status", Null, orderId, 0, r.status, r.message)
    /\ UNCHANGED <<products, carts, intents, reqs, initial, ckpt>>

UpdateProduct(productId, body) ==
    LET r == updateProduct(products, productId, body) IN
    /\ products' = r.products
    /\ last' = Last("update-product", Null, 0, 0, r.status, "")
    /\ UNCHANGED <<carts, orders, intents, clock, reqs, initial, ckpt>>

DeleteProduct(productId) ==
    LET r == deleteProduct(products, productId) IN
    /\ products' = r.products
    /\ last' = Last("delete-product", Null, 0, 0, r.status, "")
    /\ UNCHANGED <<carts, orders, intents, clock, reqs, initial, ckpt>>

\* the customer's payment attempt at the provider succeeds
ProviderSucceeds(intentId) ==
    /\ intents[intentId].status = "requires_payment_method"
    /\ intents' = [intents EXCEPT ![intentId].status = "succeeded"]
    /\ last' = Last("provider", Null, 0, intentId, 0, "")
    /\ UNCHANGED <<products, carts, orders, clock, reqs, initial, ckpt>>

\* the customer's payment attempt at the provider fails
ProviderFails(intentId) ==
    /\ intents[intentId].status = "requires_payment_method"
    /\ ~intents[intentId].failed
    /\ intents' = [intents EXCEPT ![intentId].failed = TRUE]
    /\ last' = Last("provider", Null, 0, intentId, 0, "")
    /\ UNCHANGED <<products, carts, orders, clock, reqs, initial, ckpt>>

ShippingInputs == {Null, "address"}
PaymentInputs == {Null, "credit_card", "bitcoin"}
WebhookTypes == {"payment_intent.succeeded", "payment_intent.payment_failed",
                 "payment_intent.created"}
Later == clock..MaxClock

\* cart to order: u1 fills a cart and u2 puts p1 in one; checkout and cancel
\* are handled one request at a time, while p2 is withdrawn from the catalog
Next ==
    \/ \E p \in ProductIds, q \in 1..MaxQty : CartAdd("u1", Null, p, q)
    \/ CartAdd("u2", Null, "p1", MaxQty)
    \/ CartClear("u1", Null)
    \/ \E sa \in ShippingInputs, pm \in PaymentInputs : Checkout("u1", sa, pm)
    \/ Checkout("u2", "address", "credit_card")
    \/ \E u \in Users, o \in 1..MaxOrders : CancelOrder(u, o)
    \/ \E a \in BOOLEAN : UpdateProduct("p2", [isActive |-> a])
    \/ DeleteProduct("p2")

Spec == Init /\ [][Next]_vars

\* order lifecycle without the administrator: u1 orders p1; the order is
\* cancelled, paid through the client or the webhook, and refunded
NextFlow ==
    \/ Len(orders) < MaxOrders /\ \E q \in 1..MaxQty : CartAdd("u1", Null, "p1", q)
    \/ Checkout("u1", "address", "credit_card")
    \/ \E u \in Users, o \in 1..MaxOrders : CancelOrder(u, o)
    \/ \E o \in 1..MaxOrders, ok \in BOOLEAN : CreatePaymentIntent("u1", o, ok)
    \/ \E now \in Later, o \in 1..MaxOrders, i \in 0..(Len(intents) + 1) :
          ConfirmPayment(now, "u1", o, i)
    \/ \E now \in Later, o \in 1..MaxOrders, ok \in BOOLEAN : Refund(now, "u1", o, ok)
    \/ \E now \in Later, sig \in BOOLEAN, t \in WebhookTypes, i \in 1..Len(intents) :
          Webhook(now, sig, t, i)
    \/ \E i \in 1..Len(intents) : ProviderSucceeds(i)
    \/ \E i \in 1..Len(intents) : ProviderFails(i)

SpecFlow == Init /\ [][NextFlow]_vars

\* order lifecycle with the administrator moving the order through its statuses
NextPay ==
    \/ NextFlow
    \/ \E now \in Later, o \in 1..MaxOrders, os \in OrderStatuses :
          AdminUpdateStatus(now, "admin", o, os, Null)

SpecPay == Init /\ [][NextPay]_vars

\* concurrent checkouts: the users fill their carts, then each user's checkout
\* request runs one awaited call at a time, interleaved with the other's
RequestUser == [r \in RequestIds |-> IF r = "r1" THEN "u1" ELSE "u2"]

StartCheckout(r) ==
    /\ reqs[r].pc = "idle"
    /\ reqs' = [reqs EXCEPT ![r] = checkoutReq(RequestUser[r], "address", "credit_card")]
    /\ UNCHANGED <<products, carts, orders, intents, clock, last, initial, ckpt>>

Step(r) ==
    /\ reqs[r].pc \notin {"idle", "done"}
    /\ LET s == handlerStep(DB, reqs[r]) IN
       /\ products' = s.db.products
       /\ carts' = s.db.carts
       /\ orders' = s.db.orders
       /\ reqs' = [reqs EXCEPT ![r] = s.loc]
       /\ last' = IF s.loc.pc = "done"
                  THEN Last(s.loc.op, s.loc.user, s.loc.orderId, 0, s.loc.status,
                            s.loc.message)
                  ELSE last
    /\ UNCHANGED <<intents, clock, initial, ckpt>>

\* a user puts one unit of a product that is not yet in the cart
FillCart(userId, productId) ==
    /\ \A r \in RequestIds : reqs[r].pc = "idle"
    /\ LET idx == cartFindOne(carts, [user |-> userId]) IN
       idx > 0 => lineIdx(carts[idx].items, productId) = 0
    /\ CartAdd(userId, Null, productId, 1)

NextConc ==
    \/ \E u \in Users, p \in ProductIds : FillCart(u, p)
    \/ \E r \in RequestIds : StartCheckout(r)
    \/ \E r \in RequestIds : Step(r)

SpecConc == Init /\ [][NextConc]_vars

\* the catalog with both products tracking their quantity
InitTracked ==
    /\ products = Catalog(TRUE)
    /\ InitRest

\* the client has its response: the request slot is free again
Release(r) ==
    /\ reqs[r].pc = "done"
    /\ reqs' = [reqs EXCEPT ![r] = IdleReq]
    /\ UNCHANGED <<products, carts, orders, intents, clock, last, initial, ckpt>>

StartCancel(r, orderId) ==
    /\ reqs[r].pc = "idle"
    /\ reqs' = [reqs EXCEPT ![r] = cancelReq(RequestUser[r], orderId)]
    /\ UNCHANGED <<products, carts, orders, intents, clock, last, initial, ckpt>>

\* concurrent checkouts and cancels of orders of the one unit of p2: each
\* request runs one awaited call at a time, interleaved with the other's
NextInv ==
    \/ \E u \in Users : FillCart(u, "p2")
    \/ \E r \in RequestIds : Len(orders) <= MaxOrders /\ StartCheckout(r)
    \/ \E r \in RequestIds, o \in 1..Len(orders) : StartCancel(r, o)
    \/ \E r \in RequestIds : Step(r)
    \/ \E r \in RequestIds : Release(r)

SpecInv == InitTracked /\ [][NextInv]_vars

\* the identities of the cart requests: the authenticated user, the guest
\* session, and the authenticated user who also sends a session id
CartIdentities == {<<"u1", Null>>, <<Null, "s1">>, <<"u1", "s1">>}

\* the price bodies of the catalog updates: p2 goes on sale at 19.95 and back
PriceInputs == {[regular |-> 2000, sale |-> 0], [regular |-> 2000, sale |-> 1995]}

\* cart aggregate: the cart requests of a user and of a guest session, while
\* the price of p2 changes
NextCart ==
    \/ \E id \in CartIdentities, p \in ProductIds, q \in 1..MaxQty :
          CartAdd(id[1], id[2], p, q)
    \/ \E id \in CartIdentities : CartAdd(id[1], id[2], "p1", MaxStock + 1)
    \/ \E id \in CartIdentities, p \in ProductIds, q \in 1..MaxQty :
          CartUpdate(id[1], id[2], p, q)
    \/ \E id \in CartIdentities, p \in ProductIds : CartRemove(id[1], id[2], p)
    \/ \E id \in CartIdentities : CartClear(id[1], id[2])
    \/ \E s \in Sessions \cup {Null} : CartMerge("u1", s)
    \/ \E price \in PriceInputs : UpdateProduct("p2", [price |-> price])

SpecCart == InitCart /\ [][NextCart]_vars

\* the bodies of the catalog updates of p1: it is renamed, and it goes on sale
\* at 50.00
SnapBodies ==
    {[name |-> "n1b"], [price |-> [regular |-> 6000, sale |-> 5000]]}

\* the bodies of the administrator's status updates: orderStatus alone, and
\* orderStatus with paymentStatus
SnapAdminInputs == {<<"processing", Null>>, <<"delivered", "paid">>}

\* order snapshot: u1 orders p1 while the catalog entry of p1 changes; the
\* order then goes through every request that writes orders
NextSnap ==
    \/ Len(orders) < MaxOrders /\ CartAdd("u1", Null, "p1", 1)
    \/ \E body \in SnapBodies : UpdateProduct("p1", body)
    \/ DeleteProduct("p1")
    \/ Checkout("u1", "address", "credit_card")
    \/ CancelOrder("u1", 1)
    \/ CreatePaymentIntent("u1", 1, TRUE)
    \/ \E i \in 1..Len(intents) : ConfirmPayment(clock, "u1", 1, i)
    \/ Refund(clock, "u1", 1, TRUE)
    \/ \E t \in WebhookTypes \ {"payment_intent.created"}, i \in 1..Len(intents) :
          Webhook(clock, TRUE, t, i)
    \/ \E in \in SnapAdminInputs : AdminUpdateStatus(clock, "admin", 1, in[1], in[2])
    \/ \E i \in 1..Len(intents) : ProviderSucceeds(i)
    \/ \E i \in 1..Len(intents) : ProviderFails(i)

SpecSnap == InitCart /\ [][NextSnap]_vars

\* two customers (neither has the admin role): u1 and u2 each order one unit
\* of p1; one of the orders gets a payment intent, and either customer sends
\* confirm-payment for either order with it, and refund for either order
NextIntent ==
    \/ \E u \in Users : FillCart(u, "p1")
    \/ \E r \in RequestIds : StartCheckout(r)
    \/ \E r \in RequestIds : Step(r)
    \/ \E u \in Users, o \in 1..Len(orders) : CreatePaymentIntent(u, o, TRUE)
    \/ \E i \in 1..Len(intents) : ProviderSucceeds(i)
    \/ \E i \in 1..Len(intents) : ProviderFails(i)
    \/ \E u \in Users, o \in 1..Len(orders), i \in 1..Len(intents) :
          ConfirmPayment(clock, u, o, i)
    \/ \E u \in Users, o \in 1..Len(orders) : Refund(clock, u, o, TRUE)

SpecIntent == InitTracked /\ [][NextIntent]_vars

\* arrival of a checkout request of the given user
StartCheckoutBy(r, userId) ==
    /\ reqs[r].pc = "idle"
    /\ reqs' = [reqs EXCEPT ![r] = checkoutReq(userId, "address", "credit_card")]
    /\ UNCHANGED <<products, carts, orders, intents, clock, last, initial, ckpt>>

\* one customer, two checkout requests: u1 fills the cart, then sends checkout
\* twice (a double click, a retry); the two handlers run one awaited call at a
\* time, interleaved
NextSame ==
    \/ \E p \in ProductIds : FillCart("u1", p)
    \/ \E r \in RequestIds : StartCheckoutBy(r, "u1")
    \/ \E r \in RequestIds : Step(r)

SpecSame == InitTracked /\ [][NextSame]_vars

\* arrival of an add request of an identity that has no cart yet
StartAdd(r, userId, sessionId, productId, quantity) ==
    /\ reqs[r].pc = "idle"
    /\ cartFindOne(carts, cartQuery(userId, sessionId)) = 0
    /\ reqs' = [reqs EXCEPT
                  ![r] = addReq(clock, userId, sessionId, productId, quantity)]
    /\ UNCHANGED <<products, carts, orders, intents, clock, last, initial, ckpt>>

\* the identities of the first adds: the user u1 and the guest session s1
FirstAddIdentities == {<<"u1", Null>>, <<Null, "s1">>}

\* first adds: two add requests of identities without a cart, each handler
\* running one awaited call at a time, interleaved with the other's
NextAdd ==
    \/ \E r \in RequestIds, id \in FirstAddIdentities, p \in ProductIds,
          q \in 1..MaxQty : StartAdd(r, id[1], id[2], p, q)
    \/ \E r \in RequestIds : Step(r)

SpecAdd == InitTracked /\ [][NextAdd]_vars

\* payment intents of one order: u1 orders p1 and asks for a payment intent,
\* possibly again (the page is reloaded) and possibly after cancelling the
\* order; any of the intents is paid at the provider and confirmed
NextOrphan ==
    \/ Len(orders) < MaxOrders /\ CartAdd("u1", Null, "p1", 1)
    \/ Checkout("u1", "address", "credit_card")
    \/ CancelOrder("u1", 1)
    \/ \E ok \in BOOLEAN : CreatePaymentIntentUpTo(MaxIntents + 1, "u1", 1, ok)
    \/ \E i \in 1..Len(intents) : ProviderSucceeds(i)
    \/ \E i \in 1..Len(intents) : ConfirmPayment(clock, "u1", 1, i)

SpecOrphan == InitCart /\ [][NextOrphan]_vars

\* a day passes
Tick ==
    /\ clock < MaxDay
    /\ clock' = clock + 1
    /\ UNCHANGED <<products, carts, orders, intents, reqs, last, initial, ckpt>>

\* the database's TTL monitor on the expiresAt index (expireAfterSeconds: 0):
\* the carts whose expiresAt has passed are removed
ExpireCarts ==
    /\ \E c \in 1..Len(carts) : carts[c].expiresAt <= clock
    /\ carts' = SelectSeq(carts, LAMBDA c : c.expiresAt > clock)
    /\ last' = Last("ttl", Null, 0, 0, 0, "")
    /\ UNCHANGED <<products, orders, intents, clock, reqs, initial, ckpt>>

\* cart lifetime: u1 and a guest session work on their carts as the days pass
NextTtl ==
    \/ Tick
    \/ ExpireCarts
    \/ \E p \in ProductIds : CartAdd("u1", Null, p, 1)
    \/ CartAdd(Null, "s1", "p1", 1)
    \/ \E q \in 1..MaxQty : CartUpdate("u1", Null, "p1", q)
    \/ CartRemove("u1", Null, "p1")
    \/ CartClear("u1", Null)
    \/ CartMerge("u1", "s1")

SpecTtl == InitCart /\ [][NextTtl]_vars

----------------------------------------------------------------------------
(* Properties *)

\* the lines of an order or cart whose product tracked its quantity in catalog ps
trackedLines(ps, items) ==
    {k \in 1..Len(items) : ps[items[k].product].trackQuantity}

\* C1: concurrent checkout, no oversell. When the two checkout requests have
\* completed, each having read a cart of one line with one unit of the same
\* tracked product of which one unit was in stock, exactly one of them answered
\* 201 and the other 400 "Insufficient inventory", and one order was created.
C1_NoOversell ==
    LET c1 == reqs["r1"].cart.items
        c2 == reqs["r2"].cart.items
    IN
    (/\ reqs["r1"].pc = "done" /\ reqs["r2"].pc = "done"
     /\ Len(c1) = 1 /\ Len(c2) = 1
     /\ c1[1].product = c2[1].product
     /\ c1[1].quantity = 1 /\ c2[1].quantity = 1
     /\ initial[c1[1].product].trackQuantity
     /\ initial[c1[1].product].quantity = 1)
    => /\ Len(orders) = 1
       /\ \E r \in RequestIds :
            /\ reqs[r].status = 201
            /\ \A r2 \in RequestIds \ {r} :
                 /\ reqs[r2].status = 400
                 /\ reqs[r2].message = "Insufficient inventory"
                 /\ reqs[r2].orderId = 0

C3_CheckoutEffect ==
    [][(last'.op = "checkout" /\ last'.status = 201)
        => LET items == orders'[last'.orderId].items IN
           /\ \A k \in trackedLines(products, items) :
                 products'[items[k].product].quantity
                   = products[items[k].product].quantity - items[k].quantity
           /\ cartFindOne(carts', [user |-> last'.user]) = 0]_vars

\* a successful checkout of two units of a tracked product
C3_Witness ==
    /\ last.op = "checkout" /\ last.status = 201
    /\ ckpt.orderId = last.orderId
    /\ \E k \in trackedLines(ckpt.before, orders[last.orderId].items) :
          LET item == orders[last.orderId].items[k] IN
          /\ item.quantity = 2
          /\ products[item.product].quantity = ckpt.before[item.product].quantity - 2
    /\ cartFindOne(carts, [user |-> last.user]) = 0

\* C4: checkout's inventory adjustment is all-or-nothing. A checkout that has
\* failed after its order was written has written the decrement of none of the
\* order's tracked lines, or of all of them.
C4_AllOrNothing ==
    \A r \in RequestIds :
        (reqs[r].pc = "done" /\ reqs[r].status # 201 /\ reqs[r].orderId > 0)
        => \/ reqs[r].applied = {}
           \/ reqs[r].applied = trackedLines(initial, reqs[r].cart.items)

\* C5: a step that completes with 200 the cancel of the order of the last
\* successful checkout, the catalog being as that checkout left it, puts
\* quantity, purchases and revenue of every tracked line's product back to
\* their values before the checkout.
C5_CancelRoundTrip ==
    [][(/\ last'.op = "cancel" /\ last'.status = 200
        /\ last'.orderId = ckpt.orderId
        /\ products = ckpt.after)
        => LET items == orders[ckpt.orderId].items IN
           \A k \in trackedLines(ckpt.before, items) :
              LET p == items[k].product IN
              /\ products'[p].quantity = ckpt.before[p].quantity
              /\ products'[p].purchases = ckpt.before[p].purchases
              /\ products'[p].revenue = ckpt.before[p].revenue]_vars

\* an order of a tracked product, checked out and then cancelled
C5_Witness ==
    /\ last.op = "cancel" /\ last.status = 200
    /\ ckpt.orderId = last.orderId
    /\ trackedLines(ckpt.before, orders[last.orderId].items) # {}
    /\ ckpt.after # ckpt.before
    /\ products = ckpt.before

\* C6: a cancel request of an order's owner answers 200 and leaves the order
\* cancelled when the order's orderStatus is pending or confirmed; in every
\* other orderStatus it answers 400 and leaves the orders and the products as
\* they were.
C6_CancelLegality ==
    [][(/\ last'.op = "cancel"
        /\ last'.orderId \in 1..Len(orders)
        /\ orders[last'.orderId].user = last'.user)
        => IF orders[last'.orderId].orderStatus \in {"pending", "confirmed"}
           THEN /\ last'.status = 200
                /\ orders'[last'.orderId].orderStatus = "cancelled"
           ELSE /\ last'.status = 400
                /\ last'.message = "Order cannot be cancelled at this stage"
                /\ orders' = orders
                /\ products' = products]_vars

\* a second cancel of an order, refused, with the stock restored once
C6_Witness ==
    /\ last.op = "cancel" /\ last.status = 400
    /\ orders[last.orderId].user = last.user
    /\ orders[last.orderId].orderStatus = "cancelled"
    /\ products = initial

\* C7: markPaid and markFailed are idempotent. A payment_intent.succeeded or
\* payment_intent.payment_failed event delivered again, right after its first
\* delivery, leaves the orders exactly as the first delivery left them.
C7_RedeliveryIdempotent ==
    [][(/\ last.op \in {"payment_intent.succeeded", "payment_intent.payment_failed"}
        /\ last.status = 200
        /\ last'.op = last.op
        /\ last'.intentId = last.intentId
        /\ last'.status = 200)
        => orders' = orders]_vars

\* C8: without the administrator, a step that changes an order's orderStatus
\* to cancelled starts from pending or confirmed.
C8_CancelledFromOpen ==
    [][\A o \in 1..Len(orders) :
          (orders'[o].orderStatus = "cancelled" /\ orders[o].orderStatus # "cancelled")
          => orders[o].orderStatus \in {"pending", "confirmed"}]_vars

\* a refund that has cancelled a paid order no cancel request had touched: the
\* stock is still out
C8_Witness ==
    /\ last.op = "refund" /\ last.status = 200
    /\ orders[last.orderId].orderStatus = "cancelled"
    /\ orders[last.orderId].paymentStatus = "refunded"
    /\ products["p1"].purchases > 0

\* C9: without the administrator, an order's paymentStatus changes only from
\* pending to paid, from pending to failed and from paid to refunded. Stated
\* here is what the claim singles out: no step takes a paid order to failed,
\* and no step takes a refunded order to paid.
C9_PaymentEdges ==
    [][\A o \in 1..Len(orders) :
          /\ ~(orders[o].paymentStatus = "paid" /\ orders'[o].paymentStatus = "failed")
          /\ ~(orders[o].paymentStatus = "refunded"
                 /\ orders'[o].paymentStatus = "paid")]_vars

\* C10: a step that completes a checkout with a 400 (fields missing, cart
\* missing or empty, a line's product missing, inactive or short of stock)
\* leaves the orders, the products and the carts as they were.
C10_RejectedCheckoutNoEffect ==
    [][(last'.op = "checkout" /\ last'.status = 400)
        => /\ last'.message \in
                {"Shipping address and payment method are required",
                 "Cart is empty", "Product not found",
                 "Product is no longer available", "Insufficient inventory"}
           /\ orders' = orders
           /\ products' = products
           /\ carts' = carts]_vars

\* a checkout of a two-line cart refused for a product short of stock or
\* withdrawn from sale, the first line's product being in order and the cart
\* still there
C10_Witness ==
    /\ last.op = "checkout" /\ last.status = 400
    /\ last.message \in {"Insufficient inventory", "Product is no longer available"}
    /\ LET idx == cartFindOne(carts, [user |-> last.user]) IN
       /\ idx > 0
       /\ Len(carts[idx].items) = 2
       /\ products[carts[idx].items[1].product].isActive
       /\ products[carts[idx].items[1].product].quantity >= carts[idx].items[1].quantity

C12_LineTotal ==
    \A c \in 1..Len(carts) : \A k \in 1..Len(carts[c].items) :
        carts[c].items[k].total = carts[c].items[k].quantity * carts[c].items[k].price

\* the products of the lines of a cart
lineProducts(items) == {items[k].product : k \in 1..Len(items)}

\* C13: after every step each product appears in at most one line of every
\* cart; and a successful add to an existing cart either appends a line for a
\* product the cart did not hold, or raises the quantity of the product's one
\* line and leaves the other lines alone.
C13_OneLinePerProduct ==
    [][/\ \A c \in 1..Len(carts') :
             Cardinality(lineProducts(carts'[c].items)) = Len(carts'[c].items)
       /\ (last'.op = "add" /\ last'.status = 201 /\ Len(carts') = Len(carts))
          => \A c \in 1..Len(carts) :
                carts'[c] # carts[c] =>
                LET old == carts[c].items
                    new == carts'[c].items
                IN \/ /\ Len(new) = Len(old) + 1
                      /\ SubSeq(new, 1, Len(old)) = old
                      /\ new[Len(new)].product \notin lineProducts(old)
                   \/ /\ Len(new) = Len(old)
                      /\ \E k \in 1..Len(old) :
                            /\ new[k].product = old[k].product
                            /\ new[k].quantity > old[k].quantity
                            /\ \A j \in 1..Len(old) : j # k => new[j] = old[j]]_vars

\* a product added again after its price changed: still one line, two units,
\* the first add's price and the second add's total
C13_Witness ==
    /\ last.op = "add" /\ last.status = 201
    /\ \E c \in 1..Len(carts) :
          /\ Len(carts[c].items) = 1
          /\ carts[c].items[1].quantity = 2
          /\ carts[c].items[1].price = 2000
          /\ carts[c].items[1].total = 3990

\* C14: in every reachable state, for every identity, product of the catalog
\* and quantity from 1 to one more than the largest stock: an add of more
\* units than a tracked product has answers 400 "Insufficient inventory" and
\* leaves the carts as they are (none is created); an add of a product that
\* does not track its quantity answers 201.
C14_AddInventory ==
    \A id \in CartIdentities, p \in ProductIds, q \in 1..(MaxStock + 1) :
        products[p].exists =>
        LET r == cartAdd(carts, products, clock, id[1], id[2], p, q) IN
        /\ (products[p].trackQuantity /\ q > products[p].quantity)
           => (r.status = 400 /\ r.message = "Insufficient inventory"
               /\ r.carts = carts)
        /\ ~products[p].trackQuantity => r.status = 201

\* both cases have happened: an add refused for stock with no cart created for
\* the requester, and a cart holding more units of an untracked product than
\* its stock
C14_Witness ==
    /\ last.op = "add" /\ last.status = 400
    /\ last.message = "Insufficient inventory"
    /\ cartFindOne(carts, [user |-> "u1"]) = 0
    /\ last.user = "u1"
    /\ \E c \in 1..Len(carts) : \E k \in 1..Len(carts[c].items) :
          LET item == carts[c].items[k] IN
          /\ ~products[item.product].trackQuantity
          /\ item.quantity > products[item.product].quantity

\* C15: a step that completes a clear with 200 leaves the cart it has written
\* with no items and with subtotal, tax, shipping and total all zero.
C15_ClearZeroTotals ==
    [][(last'.op = "clear" /\ last'.status = 200)
        => \A c \in 1..Len(carts) :
              carts'[c] # carts[c]
              => (carts'[c].items = <<>> /\ carts'[c].totals = ZeroTotals)]_vars

\* C16: every persisted cart has exactly one of user and sessionId set.
C16_ExclusiveOwnership ==
    \A c \in 1..Len(carts) :
        (carts[c].user # Null) <=> (carts[c].sessionId = Null)

\* the units of product p in the lines of a cart, 0 when it has none
unitsOf(items, p) ==
    SumSeq([k \in 1..Len(items) |->
              IF items[k].product = p THEN items[k].quantity ELSE 0])

\* C17: a step that completes a merge with "Carts merged successfully" (the
\* session's cart S was found and not empty; U is the user's cart, possibly
\* absent) leaves a cart of the user with, for every product, the units of U
\* plus the units of S, one line per product, and no cart with the session id.
C17_MergeSums ==
    [][(last'.op = "merge" /\ last'.message = "Carts merged successfully")
        => \A s \in Sessions :
           LET S    == carts[cartFindOne(carts, [sessionId |-> s])].items
               uidx == cartFindOne(carts, [user |-> last'.user])
               U    == IF uidx = 0 THEN <<>> ELSE carts[uidx].items
               nidx == cartFindOne(carts', [user |-> last'.user])
           IN /\ nidx > 0
              /\ \A p \in ProductIds :
                    unitsOf(carts'[nidx].items, p) = unitsOf(U, p) + unitsOf(S, p)
              /\ Cardinality(lineProducts(carts'[nidx].items))
                   = Len(carts'[nidx].items)
              /\ cartFindOne(carts', [sessionId |-> s]) = 0]_vars

\* C18: a step that completes a refund request either answers 200, the order
\* having been paid, and changes of the order exactly paymentStatus to
\* refunded, orderStatus to cancelled and refundedAt to the instant of the
\* request; or answers something else and leaves the orders as they were. An
\* order that is not paid is answered 400.
C18_RefundEffect ==
    [][(last'.op = "refund" /\ last'.orderId \in 1..Len(orders))
        => LET o == last'.orderId IN
           /\ (orders[o].paymentStatus # "paid") => last'.status = 400
           /\ IF last'.status = 200
              THEN /\ orders[o].paymentStatus = "paid"
                   /\ orders' = [orders EXCEPT ![o].paymentStatus = "refunded",
                                               ![o].orderStatus = "cancelled",
                                               ![o].refundedAt = clock']
              ELSE orders' = orders]_vars

\* a refund the provider has refused: answered 500, the order still paid and
\* without a refund stamp
C18_Witness ==
    /\ last.op = "refund" /\ last.status = 500
    /\ last.orderId \in 1..Len(orders)
    /\ orders[last.orderId].paymentStatus = "paid"
    /\ orders[last.orderId].orderStatus = "confirmed"
    /\ orders[last.orderId].refundedAt = 0

\* the (paymentStatus, orderStatus) pair of an order
statusPair(order) == <<order.paymentStatus, order.orderStatus>>

\* C19: in every reachable state, for every intent and the order it was
\* created for: when the provider reports the intent succeeded, confirm-payment
\* by the order's owner and the payment_intent.succeeded webhook leave the
\* order with the same (paymentStatus, orderStatus); when it reports
\* requires_payment_method, confirm-payment and the
\* payment_intent.payment_failed webhook leave it with the same pair.
C19_PathsConverge ==
    \A i \in 1..Len(intents) : \A now \in Later :
        LET o       == intents[i].orderId
            confirm == confirmPaymentRoute(orders, intents, now, orders[o].user, o, i)
            event   == IF intents[i].status = "succeeded"
                       THEN "payment_intent.succeeded"
                       ELSE "payment_intent.payment_failed"
            webhook == webhookRoute(orders, intents, now, TRUE, event, i)
        IN /\ confirm.status = 200 /\ webhook.status = 200
           /\ statusPair(confirm.orders[o]) = statusPair(webhook.orders[o])

\* the webhook has confirmed the payment of an order that a cancel request had
\* cancelled: paid and confirmed, as confirm-payment would leave it
C19_Witness ==
    /\ last.op = "payment_intent.succeeded" /\ last.status = 200
    /\ statusPair(orders[last.orderId]) = <<"paid", "confirmed">>
    /\ products = initial

\* C20: no step changes the items or the totals of a stored order, and no step
\* removes an order.
C20_OrderImmutable ==
    [][/\ Len(orders') >= Len(orders)
       /\ \A o \in 1..Len(orders) :
             /\ orders'[o].items = orders[o].items
             /\ orders'[o].totals = orders[o].totals]_vars

\* an order that was paid, refunded and then set delivered by the
\* administrator, its product renamed since: the line still carries the name,
\* price and total of the checkout, and the totals computed from it
C20_Witness ==
    /\ last.op = "admin-status" /\ last.status = 200
    /\ Len(orders) = 1
    /\ orders[1].paidAt > 0 /\ orders[1].refundedAt > 0 /\ orders[1].deliveredAt > 0
    /\ products["p1"].exists /\ products["p1"].name = "n1b"
    /\ orders[1].items = <<[product |-> "p1", name |-> "n1", price |-> 6000,
                            quantity |-> 1, total |-> 6000]>>
    /\ orders[1].totals = [subtotal |-> 6000, tax |-> 600, shipping |-> 1000,
                           total |-> 7600]

\* C21: a step that completes a checkout with 201 leaves, for every line of the
\* new order, the product's purchases raised by the line's quantity and its
\* revenue by the line's total, whether or not the product tracks its quantity;
\* the quantity of a product that does not track it is left as it was.
C21_CheckoutAnalytics ==
    [][(last'.op = "checkout" /\ last'.status = 201)
        => LET items == orders'[last'.orderId].items IN
           \A k \in 1..Len(items) :
              LET p == items[k].product IN
              /\ products'[p].purchases = products[p].purchases + items[k].quantity
              /\ products'[p].revenue = products[p].revenue + items[k].total
              /\ ~products[p].trackQuantity
                 => products'[p].quantity = products[p].quantity]_vars

\* C22: no step leaves a product that tracks its quantity with a negative
\* quantity; and a request about to write a decrement that would make the
\* quantity negative is answered 400 "Insufficient inventory" and writes nothing.
C22_NeverNegative ==
    [][/\ \A p \in ProductIds :
             products'[p].trackQuantity => products'[p].quantity >= 0
       /\ \A r \in RequestIds :
             (reqs[r].pc = "adjustWrite" /\ reqs[r].prod.quantity < 0
                /\ reqs'[r] # reqs[r])
             => /\ reqs'[r].status = 400
                /\ reqs'[r].message = "Insufficient inventory"
                /\ products' = products]_vars

\* C23: a step that completes a cart mutation (add, update, remove, clear,
\* merge) successfully leaves the requester's cart expiring CartTtl days after
\* the instant of the mutation.
C23_ExpiryFollowsMutation ==
    [][(/\ last'.op \in {"add", "update", "remove", "clear", "merge"}
        /\ last'.status \in {200, 201}
        /\ carts' # carts)
        => LET idx == cartFindOne(carts', cartQuery(last'.user, "s1")) IN
           idx > 0 => carts'[idx].expiresAt = clock' + CartTtl]_vars

\* C24: a step that handles a webhook request whose signature fails
\* verification answers 400 "Webhook signature verification failed" and leaves
\* the orders, the intents, the products and the carts as they were, whatever
\* event type and intent (and so order) the body names.
C24_BadSignatureRejected ==
    [][(last'.op = "webhook")
        => /\ last'.status = 400
           /\ last'.message = "Webhook signature verification failed"
           /\ orders' = orders
           /\ intents' = intents
           /\ products' = products
           /\ carts' = carts]_vars

\* a rejected webhook naming the intent of an order that awaits its payment:
\* the provider has reported no payment, a payment_intent.succeeded event of
\* that body would have marked the order paid, and the order is still pending
C24_Witness ==
    /\ last.op = "webhook" /\ last.status = 400
    /\ last.orderId \in 1..Len(orders)
    /\ intents[last.intentId].status = "requires_payment_method"
    /\ statusPair(orders[last.orderId]) = <<"pending", "pending">>
    /\ webhookRoute(orders, intents, clock, TRUE, "payment_intent.succeeded",
                    last.intentId).orders # orders

\* C25: a step that completes a payment_intent.succeeded webhook or a
\* confirm-payment with 200 changes the order's orderStatus only from pending,
\* and then to confirmed: an order that is cancelled, processing, shipped or
\* delivered keeps its orderStatus.
C25_MarkPaidLifecycle ==
    [][(/\ last'.op \in {"payment_intent.succeeded", "confirm-payment"}
        /\ last'.status = 200
        /\ last'.orderId \in 1..Len(orders))
        => LET o == last'.orderId IN
           orders'[o].orderStatus # orders[o].orderStatus
           => /\ orders[o].orderStatus = "pending"
              /\ orders'[o].orderStatus = "confirmed"]_vars

\* C26: without the administrator and with the catalog as it started, for
\* every product that tracks its quantity, the quantity plus the units of the
\* product in the lines of the orders that are not cancelled is the product's
\* quantity at the start. Stated here is the half the claim spells out: a
\* cancel or a refund request handled in a state where this balance holds
\* leaves a state where it holds (the order it cancels has its stock restored).
C26_InventoryConservation ==
    [][LET balanced(ps, os) ==
             \A p \in ProductIds :
                 ps[p].trackQuantity
                 => ps[p].quantity
                      + SumSeq([o \in 1..Len(os) |->
                                  IF os[o].orderStatus # "cancelled"
                                  THEN unitsOf(os[o].items, p) ELSE 0])
                    = initial[p].quantity
       IN (balanced(products, orders) /\ last'.op \in {"cancel", "refund"})
          => balanced(products', orders')]_vars

\* C27: without the administrator, in every state no order has orderStatus
\* cancelled together with paymentStatus paid.
C27_NoCancelledPaid ==
    \A o \in 1..Len(orders) : statusPair(orders[o]) # <<"paid", "cancelled">>

\* C27 as amended: without the administrator, every order whose paymentStatus
\* is refunded has orderStatus cancelled; and an order comes to be cancelled
\* and paid only by a cancel request on a paid order, which leaves its
\* paymentStatus as it was.
C27_RefundedIsCancelled ==
    [][\A o \in 1..Len(orders') :
          /\ orders'[o].paymentStatus = "refunded"
             => orders'[o].orderStatus = "cancelled"
          /\ (/\ o <= Len(orders)
              /\ statusPair(orders'[o]) = <<"paid", "cancelled">>
              /\ statusPair(orders[o]) # <<"paid", "cancelled">>)
             => /\ last'.op = "cancel" /\ last'.orderId = o
                /\ orders[o].paymentStatus = "paid"]_vars

\* an order its owner cancelled while it was paid, refunded afterwards: the
\* stock went back at the cancel, the money at the refund
C27_Witness ==
    /\ last.op = "refund" /\ last.status = 200
    /\ statusPair(orders[last.orderId]) = <<"refunded", "cancelled">>
    /\ products = initial

\* C28: a step in which confirm-payment takes an order to paid was given the
\* payment intent id stored on that order, an intent created for that order.
C28_OwnIntentOnly ==
    [][\A o \in 1..Len(orders) :
          (/\ last'.op = "confirm-payment" /\ last'.orderId = o
           /\ orders'[o].paymentStatus = "paid"
           /\ orders[o].paymentStatus # "paid")
          => /\ last'.intentId = orders[o].paymentIntentId
             /\ intents[last'.intentId].orderId = o]_vars

\* C29: a refund request of a customer who is not the order's owner is
\* answered 404 and changes nothing. Stated here is the half about the effect:
\* a step that completes such a request leaves the orders and the provider's
\* intents (no refund is made) as they were.
C29_RefundByOwnerOnly ==
    [][(/\ last'.op = "refund"
        /\ last'.orderId \in 1..Len(orders)
        /\ orders[last'.orderId].user # last'.user)
        => /\ orders' = orders
           /\ intents' = intents]_vars

\* C30: a step that completes a merge with "Carts merged successfully" leaves a
\* cart of the requesting user that holds every line the user's cart held
\* before, with at least the quantity it had.
C30_MergeKeepsUserCart ==
    [][(last'.op = "merge" /\ last'.message = "Carts merged successfully")
        => LET uidx == cartFindOne(carts, [user |-> last'.user])
               nidx == cartFindOne(carts', [user |-> last'.user])
           IN /\ nidx > 0
              /\ uidx > 0
                 => \A k \in 1..Len(carts[uidx].items) :
                       \E j \in 1..Len(carts'[nidx].items) :
                          /\ carts'[nidx].items[j].product
                               = carts[uidx].items[k].product
                          /\ carts'[nidx].items[j].quantity
                               >= carts[uidx].items[k].quantity]_vars

\* C31: a step that completes an add or an update with success leaves every
\* cart line it has written, of a product that tracks its quantity, with at
\* most the product's quantity in stock.
C31_LineWithinStock ==
    [][(last'.op \in {"add", "update"} /\ last'.status \in {200, 201})
        => \A c \in 1..Len(carts') : \A k \in 1..Len(carts'[c].items) :
              LET line == carts'[c].items[k] IN
              (/\ products[line.product].exists
               /\ products[line.product].trackQuantity
               /\ ~(/\ c <= Len(carts) /\ k <= Len(carts[c].items)
                    /\ carts[c].items[k] = line))
              => line.quantity <= products[line.product].quantity]_vars

\* C32: when two checkout requests of the same user have read the same cart,
\* in every state at most one order exists, and every product that tracks its
\* quantity has lost at most the units of its line in that cart.
C32_OneOrderPerCart ==
    (/\ reqs["r1"].op = "checkout" /\ reqs["r2"].op = "checkout"
     /\ reqs["r1"].user = reqs["r2"].user
     /\ reqs["r1"].cart.items # <<>>
     /\ reqs["r1"].cart = reqs["r2"].cart)
    => /\ Len(orders) <= 1
       /\ \A p \in ProductIds :
             initial[p].trackQuantity
             => products[p].quantity
                  >= initial[p].quantity - unitsOf(reqs["r1"].cart.items, p)

\* C33: in every state there is at most one cart of each user and at most one
\* guest cart of each session id, and every add request answered 201 has its
\* product in the cart of its identity.
C33_OneCartPerIdentity ==
    /\ \A u \in Users :
          Cardinality({c \in 1..Len(carts) : carts[c].user = u}) <= 1
    /\ \A sid \in Sessions :
          Cardinality({c \in 1..Len(carts) :
                          carts[c].user = Null /\ carts[c].sessionId = sid}) <= 1
    /\ \A r \in RequestIds :
          (reqs[r].op = "add" /\ reqs[r].pc = "done" /\ reqs[r].status = 201)
          => LET idx == cartFindOne(carts, cartQuery(reqs[r].user, reqs[r].sessionId))
             IN /\ idx > 0
                /\ reqs[r].productId \in lineProducts(carts[idx].items)

\* C34: after every step each order has at most one payment intent at the
\* provider and every paid order's stored paymentIntentId names an intent that
\* was paid; and a create-payment-intent request for an order that has a
\* stored paymentIntentId, or that is cancelled, creates no intent.
C34_NoOrphanIntents ==
    [][/\ \A o \in 1..Len(orders') :
             /\ Cardinality({i \in 1..Len(intents') : intents'[i].orderId = o}) <= 1
             /\ orders'[o].paymentStatus = "paid"
                => /\ orders'[o].paymentIntentId \in 1..Len(intents')
                   /\ intents'[orders'[o].paymentIntentId].status = "succeeded"
       /\ (/\ last'.op = "create-payment-intent"
           /\ last'.orderId \in 1..Len(orders)
           /\ \/ orders[last'.orderId].paymentIntentId # 0
              \/ orders[last'.orderId].orderStatus = "cancelled")
          => intents' = intents]_vars

\* the unit price of the line of product p in the lines of a cart
priceOf(items, p) == items[lineIdx(items, p)].price

\* C35: a step of a cart request or of a catalog update leaves every line of
\* every cart with the unit price the product's line had in that cart before;
\* a line that was not there is the one an add has inserted, at the product's
\* sale price if it has one and else its regular price. A step that completes
\* a merge leaves every line of the user's cart with the price of the
\* product's line in the user's cart before, and else in the session's cart.
C35_PriceFixedAtInsertion ==
    [][/\ (last'.op \in {"add", "update", "remove", "clear", "update-product"})
          => \A c \in 1..Len(carts') : \A k \in 1..Len(carts'[c].items) :
                LET line == carts'[c].items[k] IN
                IF c <= Len(carts) /\ line.product \in lineProducts(carts[c].items)
                THEN line.price = priceOf(carts[c].items, line.product)
                ELSE /\ last'.op = "add"
                     /\ line.price = itemPrice(products[line.product])
       /\ (last'.op = "merge" /\ last'.message = "Carts merged successfully")
          => \A sid \in Sessions :
             LET S    == carts[cartFindOne(carts, [sessionId |-> sid])].items
                 uidx == cartFindOne(carts, [user |-> last'.user])
                 U    == IF uidx = 0 THEN <<>> ELSE carts[uidx].items
                 nidx == cartFindOne(carts', [user |-> last'.user])
             IN nidx > 0
                => \A k \in 1..Len(carts'[nidx].items) :
                      LET line == carts'[nidx].items[k] IN
                      IF line.product \in lineProducts(U)
                      THEN line.price = priceOf(U, line.product)
                      ELSE /\ line.product \in lineProducts(S)
                           /\ line.price = priceOf(S, line.product)]_vars

\* a merge into a user's line of p2 inserted at 20.00, the catalog saying
\* 19.95 by now: the line has grown and is still at 20.00
C35_Witness ==
    /\ last.op = "merge" /\ last.message = "Carts merged successfully"
    /\ itemPrice(products["p2"]) = 1995
    /\ LET idx == cartFindOne(carts, [user |-> last.user]) IN
       /\ idx > 0
       /\ "p2" \in lineProducts(carts[idx].items)
       /\ priceOf(carts[idx].items, "p2") = 2000
       /\ unitsOf(carts[idx].items, "p2") = 2
       /\ Len(carts) = 1

\* deletion of a product by an administrator while checkouts of user u1 are
\* in progress
NextDel ==
    \/ \E p \in ProductIds : FillCart("u1", p)
    \/ \E r \in RequestIds : StartCheckoutBy(r, "u1")
    \/ \E r \in RequestIds : Step(r)
    \/ \E p \in ProductIds : DeleteProduct(p)

SpecDel == InitTracked /\ [][NextDel]_vars

\* C36: a step that completes a checkout with 201 leaves an order whose totals
\* are those of the cart the checkout read, with subtotal = sum of the order's
\* line totals, tax = the subtotal's tenth rounded to the cent, shipping = 0
\* from 100.00 on and 10.00 below, and total = subtotal + tax + shipping; and
\* no step changes the totals of a stored order.
C36_OrderTotalsAsCart ==
    [][/\ \A r \in RequestIds :
            (/\ reqs[r].pc # "done" /\ reqs'[r].pc = "done"
             /\ reqs'[r].op = "checkout" /\ reqs'[r].status = 201)
            => LET o   == orders'[reqs'[r].orderId]
                   sub == SumSeq(SeqMap(o.items, LAMBDA it : it.total))
               IN /\ o.totals = reqs[r].cart.totals
                  /\ o.totals.subtotal = sub
                  /\ 10 * o.totals.tax <= sub + 5
                  /\ sub + 5 < 10 * o.totals.tax + 10
                  /\ o.totals.shipping = (IF sub >= 10000 THEN 0 ELSE 1000)
                  /\ o.totals.total = sub + o.totals.tax + o.totals.shipping
       /\ \A o \in 1..Len(orders) :
             o <= Len(orders') /\ orders'[o].totals = orders[o].totals]_vars
====
